---- MODULE Spec2Model ----
(***************************************************************************)
(* Model of clickhouse_backend/driver/connection.py: the pooled Cursor and *)
(* Connection classes.                                                     *)
(*                                                                         *)
(* The lifecycle operations (Connection.cursor, Cursor.close,              *)
(* Cursor.__del__, Connection.close) are modelled statement by statement,  *)
(* one action per statement, so that calls of different threads can        *)
(* interleave.  ClickhousePool (clickhouse_backend/driver/pool.py) is not  *)
(* part of the sources at hand; pull, push and cleanup follow section 4.1  *)
(* of the specification.                                                   *)
(***************************************************************************)
EXTENDS Integers, Sequences, FiniteSets, TLC

\* ------------------------------------------------------------------ bounds
\* Number of Connection.cursor() calls that get as far as pool.pull().
MaxCursors == 2
\* The pool's max_size (connections_max, scaled down).
MaxSize == 2
\* Number of close() calls the application makes on one cursor.
MaxCloses == 2

\* Two application threads share the connection: the smallest number on which
\* calls overlap.
Threads == {1, 2}
Cursors == 1..MaxCursors
\* Every cursor() call creates at most one handle.
Handles == 1..MaxCursors

\* _states of the DB-API cursor; "absent" marks a cursor object not yet made.
CURSOR_CLOSED == "CURSOR_CLOSED"
OpenStates == {"NONE", "RUNNING", "FINISHED"}

VARIABLES
  pc,          \* thread -> the statement it is about to run ("idle": no call)
  tcur,        \* thread -> the cursor its close()/__del__ call runs on (0: none)
  tcli,        \* thread -> the handle its cursor() call has pulled (0: none)
  cstate,      \* cursor -> Cursor._state
  cclient,     \* cursor -> Cursor._client, the bound handle (0: none)
  finalized,   \* cursor -> the garbage collector has run its finalizer
  pushes,      \* cursor -> number of pool.push() calls made by this cursor
  closes,      \* cursor -> number of close() calls the application has made
  idle,        \* pool: the idle set
  live,        \* pool: handles created and not closed (idle + checked out)
  closedH,     \* pool: handles that were closed
  drained,     \* pool: handles closed by a push() made after cleanup()
  poolClosed,  \* pool: the closed flag
  pulls,       \* number of pool.pull() calls that returned a handle
  pullsClosed, \* number of pool.pull() calls made on a cleaned-up pool
  is_closed,   \* Connection.is_closed
  conn_hosts,  \* Connection._hosts (0: None), else the host-list object
  hostsWrites, \* number of assignments to Connection._hosts
  hhosts,      \* handle -> its connection.hosts object
  rowcount,    \* cursor -> Cursor._rowcount
  columnar,    \* cursor -> Cursor.columnar
  ctx,         \* cursor -> the values saved by set_query_execution_args
  use_numpy,   \* handle -> client_settings["use_numpy"]
  qcls,        \* handle -> its three result-assembly classes
  call,        \* the execute() call in progress: its cursor (0: no call),
               \* arguments, the server's answers and the cursor before it
  wire,        \* the queries the call in progress has sent, in order
  numpy_ok,    \* clickhouse_driver.numpy.result can be imported
  flag         \* settings.CLICKHOUSE_ENABLE_UPDATE_ROWCOUNT

lifeVars == <<pc, tcur, tcli, cstate, cclient, finalized, pushes, closes,
              idle, live, closedH, drained, poolClosed, pulls, pullsClosed,
              is_closed, conn_hosts, hostsWrites, hhosts>>

execVars == <<rowcount, columnar, ctx, use_numpy, qcls, call, wire, numpy_ok,
              flag>>

vars == <<lifeVars, execVars>>

\* ------------------------------------------------------------------- text
\* A string is a sequence of characters, each a one-character string; "sz"
\* stands for the letter U+00DF, whose upper case is the two letters "SS".
\* "ALTER TABLE ", the literal head of update_pattern
ALTER_TABLE ==
    <<"A", "L", "T", "E", "R", " ", "T", "A", "B", "L", "E", " ">>

\* " UPDATE ", the literal tail of update_pattern
UPDATE_ ==
    <<" ", "U", "P", "D", "A", "T", "E", " ">>

\* " WHERE "
WHERE_ ==
    <<" ", "W", "H", "E", "R", "E", " ">>

\* " SETTINGS "
SETTINGS_ ==
    <<" ", "S", "E", "T", "T", "I", "N", "G", "S", " ">>

\* "select count(*) from "
PROBE_HEAD ==
    <<"s", "e", "l", "e", "c", "t", " ", "c", "o", "u", "n", "t", "(", "*",
      ")", " ", "f", "r", "o", "m", " ">>

\* " where "
PROBE_MID ==
    <<" ", "w", "h", "e", "r", "e", " ">>

LowerCase ==
    <<"a", "b", "c", "d", "e", "f", "g", "h", "i", "j", "k", "l", "m", "n",
      "o", "p", "q", "r", "s", "t", "u", "v", "w", "x", "y", "z">>

UpperCase ==
    <<"A", "B", "C", "D", "E", "F", "G", "H", "I", "J", "K", "L", "M", "N",
      "O", "P", "Q", "R", "S", "T", "U", "V", "W", "X", "Y", "Z">>

\* ALTER TABLE "t" UPDATE 
T_prefix ==
    <<"A", "L", "T", "E", "R", " ", "T", "A", "B", "L", "E", " ", "\"", "t",
      "\"", " ", "U", "P", "D", "A", "T", "E", " ">>

\* x = 1
T_set_plain ==
    <<"x", " ", "=", " ", "1">>

\* s = '<sz>', <sz> standing for the letter U+00DF
T_set_sz ==
    <<"s", " ", "=", " ", "'", "sz", "'">>

\* x = (SELECT a FROM b WHERE c = 1)
T_set_sub ==
    <<"x", " ", "=", " ", "(", "S", "E", "L", "E", "C", "T", " ", "a", " ",
      "F", "R", "O", "M", " ", "b", " ", "W", "H", "E", "R", "E", " ", "c",
      " ", "=", " ", "1", ")">>

\* x = %s
T_set_param ==
    <<"x", " ", "=", " ", "%", "s">>

\*  WHERE id > 5
T_where ==
    <<" ", "W", "H", "E", "R", "E", " ", "i", "d", " ", ">", " ", "5">>

\*  where id > 5
T_where_lower ==
    <<" ", "w", "h", "e", "r", "e", " ", "i", "d", " ", ">", " ", "5">>

\*  WHERE id > %s
T_where_param ==
    <<" ", "W", "H", "E", "R", "E", " ", "i", "d", " ", ">", " ", "%", "s">>

\*  SETTINGS max_threads = 2
T_settings ==
    <<" ", "S", "E", "T", "T", "I", "N", "G", "S", " ", "m", "a", "x", "_",
      "t", "h", "r", "e", "a", "d", "s", " ", "=", " ", "2">>

\*  settings a = 2
T_settings_lower ==
    <<" ", "s", "e", "t", "t", "i", "n", "g", "s", " ", "a", " ", "=", " ",
      "2">>

\* SELECT 1
T_select ==
    <<"S", "E", "L", "E", "C", "T", " ", "1">>

\* alter table "t" update x = 1 WHERE id > 5
T_lower_head ==
    <<"a", "l", "t", "e", "r", " ", "t", "a", "b", "l", "e", " ", "\"", "t",
      "\"", " ", "u", "p", "d", "a", "t", "e", " ", "x", " ", "=", " ", "1",
      " ", "W", "H", "E", "R", "E", " ", "i", "d", " ", ">", " ", "5">>

\* ALTER TABLE t UPDATE x = 1 WHERE id > 5
T_bare_name ==
    <<"A", "L", "T", "E", "R", " ", "T", "A", "B", "L", "E", " ", "t", " ",
      "U", "P", "D", "A", "T", "E", " ", "x", " ", "=", " ", "1", " ", "W",
      "H", "E", "R", "E", " ", "i", "d", " ", ">", " ", "5">>

\* ALTER TABLE "a\"b" UPDATE x = 1 WHERE id > 5
T_esc_name ==
    <<"A", "L", "T", "E", "R", " ", "T", "A", "B", "L", "E", " ", "\"", "a",
      "\\", "\"", "b", "\"", " ", "U", "P", "D", "A", "T", "E", " ", "x",
      " ", "=", " ", "1", " ", "W", "H", "E", "R", "E", " ", "i", "d", " ",
      ">", " ", "5">>

\* ALTER TABLE "t" DELETE WHERE id > 5
T_delete ==
    <<"A", "L", "T", "E", "R", " ", "T", "A", "B", "L", "E", " ", "\"", "t",
      "\"", " ", "D", "E", "L", "E", "T", "E", " ", "W", "H", "E", "R", "E",
      " ", "i", "d", " ", ">", " ", "5">>

Max(S) == CHOOSE x \in S : \A y \in S : y <= x
Min2(a, b) == IF a <= b THEN a ELSE b

\* str.upper() of one character
UpperChar(ch) ==
  IF ch = "sz" THEN <<"S", "S">>
  ELSE IF \E k \in 1..26 : LowerCase[k] = ch
       THEN <<UpperCase[CHOOSE k \in 1..26 : LowerCase[k] = ch]>>
       ELSE <<ch>>

RECURSIVE Upper(_)
\* query.upper(): the upper case of every character, in order
Upper(s) ==
  IF Len(s) = 0 THEN <<>>
  ELSE IF Len(s) = 1 THEN UpperChar(s[1])
       ELSE LET half == Len(s) \div 2
            IN Upper(SubSeq(s, 1, half)) \o Upper(SubSeq(s, half + 1, Len(s)))

\* s[p:p+len(sub)] == sub, p counted from 0
StartsAt(s, sub, p) ==
  /\ p >= 0
  /\ p + Len(sub) <= Len(s)
  /\ \A k \in 1..Len(sub) : s[p + k] = sub[k]

\* s.rfind(sub, start): the highest index from 0, or -1
RFind(s, sub, start) ==
  LET hits == {p \in start..(Len(s) - Len(sub)) : StartsAt(s, sub, p)}
  IN IF hits = {} THEN -1 ELSE Max(hits)

\* s[a:b]
Slice(s, a, b) ==
  LET e == Min2(b, Len(s))
  IN IF a >= e THEN <<>> ELSE SubSeq(s, a + 1, e)

RECURSIVE NameEnd(_, _, _)
\* name_regex, "(?:[^"]|\\.)+", followed by " UPDATE ": p is the next
\* character to read, n the repetitions matched so far.  The result is the
\* position of the closing quote, 0 when nothing matches.  A repetition is
\* tried before the group is left, [^"] before \\. .
NameEnd(s, p, n) ==
  LET more1 == IF p <= Len(s) /\ s[p] # "\"" THEN NameEnd(s, p + 1, n + 1) ELSE 0
      more2 == IF more1 = 0 /\ p + 1 <= Len(s) /\ s[p] = "\\"
               THEN NameEnd(s, p + 2, n + 1) ELSE 0
      done == IF n >= 1 /\ p <= Len(s) /\ s[p] = "\"" /\ StartsAt(s, UPDATE_, p)
              THEN p ELSE 0
  IN IF more1 # 0 THEN more1 ELSE IF more2 # 0 THEN more2 ELSE done

\* update_pattern.match(s): the position of the name's closing quote, or 0
update_pattern(s) ==
  IF StartsAt(s, ALTER_TABLE, 0) /\ Len(s) > Len(ALTER_TABLE)
     /\ s[Len(ALTER_TABLE) + 1] = "\""
  THEN NameEnd(s, Len(ALTER_TABLE) + 2, 0)
  ELSE 0

\* m.group(1)
table_of(s) == SubSeq(s, Len(ALTER_TABLE) + 1, update_pattern(s))

\* The places of the %s placeholders of q.
Placeholders(q) == {i \in 1..(Len(q) - 1) : q[i] = "%" /\ q[i + 1] = "s"}

RECURSIVE Subst(_, _)
Subst(q, params) ==
  IF params = <<>> \/ Placeholders(q) = {} THEN q
  ELSE LET i == CHOOSE x \in Placeholders(q) : \A y \in Placeholders(q) : x <= y
       IN SubSeq(q, 1, i - 1) \o Head(params)
            \o Subst(SubSeq(q, i + 2, Len(q)), Tail(params))

\* self._client.substitute_params(operation, parameters, context): every %s
\* is replaced by the next escaped parameter
substitute_params(operation, parameters) == Subst(operation, parameters)

\* i = query_upper.rfind(" WHERE ")
where_index(query) == RFind(Upper(query), WHERE_, 0)

\* j = query_upper.rfind(" SETTINGS ", i + 7)
settings_index(query) == RFind(Upper(query), SETTINGS_, where_index(query) + 7)

\* where = query[i + 7 : j] if j > 0 else query[i + 7 :]
where_of(query) ==
  IF settings_index(query) > 0
  THEN Slice(query, where_index(query) + 7, settings_index(query))
  ELSE Slice(query, where_index(query) + 7, Len(query))

\* f"select count(*) from {table} where {where}"
probe_of(table, where) == PROBE_HEAD \o table \o PROBE_MID \o where

\* ---------------------------------------------------------------- inputs
NoParams == <<>>

SetClauses == {[text |-> T_set_plain, params |-> NoParams],
               [text |-> T_set_sz, params |-> NoParams],
               [text |-> T_set_sub, params |-> NoParams],
               [text |-> T_set_param, params |-> <<(<<"1">>)>>]}

WhereClauses == {[text |-> <<>>, params |-> NoParams],
                 [text |-> T_where, params |-> NoParams],
                 [text |-> T_where_lower, params |-> NoParams],
                 [text |-> T_where_param, params |-> <<(<<"5">>)>>]}

SettingsClauses == {<<>>, T_settings, T_settings_lower}

Statement(op, params) == [op |-> op, params |-> params]

\* ALTER TABLE "t" UPDATE <assignments>[ WHERE <predicate>][ SETTINGS ...]
UpdateStmts ==
  {Statement(T_prefix \o a.text \o w.text \o st, a.params \o w.params) :
     a \in SetClauses, w \in WhereClauses, st \in SettingsClauses}

\* Statements of other shapes.
OtherStmts == {Statement(T_select, NoParams), Statement(T_lower_head, NoParams),
               Statement(T_bare_name, NoParams), Statement(T_delete, NoParams)}

AllStmts == UpdateStmts \cup OtherStmts \cup {Statement(T_esc_name, NoParams)}

\* The statement of the specification's own example.
FewStmts == {Statement(T_prefix \o T_set_plain \o T_where, NoParams)}

\* ----------------------------------------------------------------- server
\* The values a count probe may return.
ProbeCounts == {0, 7}

Failure == [kind |-> "error", n |-> 0, first |-> 0]

\* select count(*) answers one row with one value, or the query fails.
ProbeResponses(counts) ==
  {Failure} \cup {[kind |-> "rows", n |-> 1, first |-> v] : v \in counts}

IsSelect(op) == StartsAt(op, <<"S", "E", "L", "E", "C", "T">>, 0)

\* A SELECT answers rows with their columns; a mutation answers neither.
StmtResponses(op) ==
  {Failure} \cup (IF IsSelect(op) THEN {[kind |-> "rows", n |-> 2, first |-> 1]}
                  ELSE {[kind |-> "empty", n |-> 0, first |-> 0]})

\* ------------------------------------------------------------ ClickhousePool
\* pull(): an idle handle if one exists, else a new one below max_size.
PullChoices == IF idle # {} THEN idle
               ELSE IF Cardinality(live) < MaxSize
                    THEN {CHOOSE h \in Handles :
                            /\ h \notin live \cup closedH
                            /\ \A g \in Handles : g < h => g \in live \cup closedH}
                    ELSE {}

\* push(handle): into the idle set, or closed when the pool is closed.
PoolPush(h) ==
  IF poolClosed
  THEN /\ live' = live \ {h}
       /\ closedH' = closedH \cup {h}
       /\ drained' = drained \cup {h}
       /\ idle' = idle
  ELSE /\ idle' = idle \cup {h}
       /\ UNCHANGED <<live, closedH, drained>>

\* cleanup(): mark closed, close every idle handle, clear the idle set.
PoolCleanup ==
  /\ poolClosed' = TRUE
  /\ live' = live \ idle
  /\ closedH' = closedH \cup idle
  /\ idle' = {}
  /\ UNCHANGED drained

\* --------------------------------------------------------------- helpers
\* Cursor.closed
closed(c) == cstate[c] = CURSOR_CLOSED

Exists(c) == cstate[c] # "absent"

\* A thread is inside a call on cursor c.
Active(c) == \E t \in Threads : tcur[t] = c

InCursorCall(t) == pc[t] \in {"cur_pull", "cur_hosts", "cur_hosts_write",
                              "cur_hosts_assign"}

\* The call returns to the application.
Return(t) ==
  /\ pc' = [pc EXCEPT ![t] = "idle"]
  /\ tcur' = [tcur EXCEPT ![t] = 0]
  /\ tcli' = [tcli EXCEPT ![t] = 0]

\* The call raises: the exception is on its way to the caller.
Raise(t, exc) ==
  /\ pc' = [pc EXCEPT ![t] = exc]
  /\ tcur' = [tcur EXCEPT ![t] = 0]
  /\ tcli' = [tcli EXCEPT ![t] = 0]

Goto(t, label) == pc' = [pc EXCEPT ![t] = label]

Exceptions == {"InterfaceError", "PoolExhausted", "OperationalError",
               "AttributeError", "RuntimeError", "BlockError"}

\* ------------------------------------------------------------------- Init
PlainClasses == [query |-> "QueryResult", iter |-> "IterQueryResult",
                 progress |-> "ProgressQueryResult"]
NumpyClasses == [query |-> "NumpyQueryResult", iter |-> "NumpyIterQueryResult",
                 progress |-> "NumpyProgressQueryResult"]

\* No execute() call is in progress.
NoCall == [cursor |-> 0, stmt |-> Statement(<<>>, NoParams), presp |-> Failure,
           sresp |-> Failure, before |-> [state |-> "absent", rowcount |-> -1]]

\* No set_query_execution_args block is open.
NoCtx == [on |-> FALSE, use_numpy |-> "False", columnar |-> "None"]

\* The cursors' options and the environment: the NumPy extras are installed
\* or not, the row-count flag is set or not.
OptionsInit(avail, enabled) ==
  /\ rowcount = [c \in Cursors |-> -1]
  /\ columnar = [c \in Cursors |-> "None"]
  /\ ctx = [c \in Cursors |-> NoCtx]
  /\ use_numpy = [h \in Handles |-> "False"]
  /\ qcls = [h \in Handles |-> PlainClasses]
  /\ call = NoCall
  /\ wire = <<>>
  /\ numpy_ok = avail
  /\ flag = enabled

\* The state after Connection.__init__: no handle, no cursor.
InitWith(avail, enabled) ==
  /\ OptionsInit(avail, enabled)
  /\ pc = [t \in Threads |-> "idle"]
  /\ tcur = [t \in Threads |-> 0]
  /\ tcli = [t \in Threads |-> 0]
  /\ cstate = [c \in Cursors |-> "absent"]
  /\ cclient = [c \in Cursors |-> 0]
  /\ finalized = [c \in Cursors |-> FALSE]
  /\ pushes = [c \in Cursors |-> 0]
  /\ closes = [c \in Cursors |-> 0]
  /\ idle = {}
  /\ live = {}
  /\ closedH = {}
  /\ drained = {}
  /\ poolClosed = FALSE
  /\ pulls = 0
  /\ pullsClosed = 0
  /\ is_closed = FALSE
  /\ conn_hosts = 0
  /\ hostsWrites = 0
  /\ hhosts = [h \in Handles |-> 0]

\* The state after the first conn.cursor(): cursor 1 is open on handle 1.
OneCursor(avail, enabled) ==
  /\ OptionsInit(avail, enabled)
  /\ pc = [t \in Threads |-> "idle"]
  /\ tcur = [t \in Threads |-> 0]
  /\ tcli = [t \in Threads |-> 0]
  /\ cstate = [c \in Cursors |-> IF c = 1 THEN "NONE" ELSE "absent"]
  /\ cclient = [c \in Cursors |-> IF c = 1 THEN 1 ELSE 0]
  /\ finalized = [c \in Cursors |-> FALSE]
  /\ pushes = [c \in Cursors |-> 0]
  /\ closes = [c \in Cursors |-> 0]
  /\ idle = {}
  /\ live = {1}
  /\ closedH = {}
  /\ drained = {}
  /\ poolClosed = FALSE
  /\ pulls = 1
  /\ pullsClosed = 0
  /\ is_closed = FALSE
  /\ conn_hosts = 1
  /\ hostsWrites = 1
  /\ hhosts = [h \in Handles |-> IF h = 1 THEN 1 ELSE 0]

Init == InitWith(TRUE, TRUE)

poolVars == <<idle, live, closedH, drained, poolClosed>>
cursorVars == <<cstate, cclient, finalized, pushes, closes>>
connVars == <<is_closed, conn_hosts, hostsWrites, hhosts>>
pullVars == <<pulls, pullsClosed>>

\* ------------------------------------------------------ Connection.cursor()
\* Calls that reached pool.pull() or are about to.
Budget == Cardinality({c \in Cursors : Exists(c)})
          + Cardinality({t \in Threads : InCursorCall(t)})

\* cursor() without the is_closed test.
CursorCallNoTest(t) ==
  /\ pc[t] = "idle"
  /\ Budget < MaxCursors
  /\ Goto(t, "cur_pull")
  /\ UNCHANGED <<tcur, tcli>>
  /\ UNCHANGED <<cursorVars, poolVars, connVars, pullVars>>
  /\ UNCHANGED execVars

\* if self.is_closed: raise errors.InterfaceError("connection already closed")
CursorCall(t) ==
  /\ pc[t] = "idle"
  /\ IF is_closed
     THEN Raise(t, "InterfaceError")
     ELSE /\ Budget < MaxCursors
          /\ Goto(t, "cur_pull")
          /\ UNCHANGED <<tcur, tcli>>
  /\ UNCHANGED <<cursorVars, poolVars, connVars, pullVars>>
  /\ UNCHANGED execVars

\* client = self._make_client(), that is self.pool.pull()
CursorPull(t) ==
  /\ pc[t] = "cur_pull"
  /\ IF PullChoices = {}
     THEN /\ Raise(t, "PoolExhausted")
          /\ UNCHANGED <<poolVars, connVars, pulls>>
     ELSE \E h \in PullChoices :
            /\ idle' = idle \ {h}
            /\ live' = live \cup {h}
            /\ hhosts' = IF h \in live THEN hhosts ELSE [hhosts EXCEPT ![h] = h]
            /\ tcli' = [tcli EXCEPT ![t] = h]
            /\ pulls' = pulls + 1
            /\ Goto(t, "cur_hosts")
            /\ UNCHANGED <<tcur, closedH, drained, poolClosed, is_closed,
                           conn_hosts, hostsWrites>>
  /\ pullsClosed' = IF poolClosed THEN pullsClosed + 1 ELSE pullsClosed
  /\ UNCHANGED cursorVars
  /\ UNCHANGED execVars

\* if self._hosts is None:
CursorHosts(t) ==
  /\ pc[t] = "cur_hosts"
  /\ Goto(t, IF conn_hosts = 0 THEN "cur_hosts_write" ELSE "cur_hosts_assign")
  /\ UNCHANGED <<tcur, tcli, cursorVars, poolVars, connVars, pullVars>>
  /\ UNCHANGED execVars

NewCursor == CHOOSE c \in Cursors :
               ~Exists(c) /\ \A d \in Cursors : d < c => Exists(d)

\* return cursor_factory(client, self): the new cursor is bound to the handle;
\* the base class constructor leaves it in state NONE.
CursorMake(t) ==
  /\ cstate' = [cstate EXCEPT ![NewCursor] = "NONE"]
  /\ cclient' = [cclient EXCEPT ![NewCursor] = tcli[t]]
  /\ Return(t)
  /\ UNCHANGED <<finalized, pushes, closes>>

\* self._hosts = client.connection.hosts, then the cursor is made
CursorHostsWrite(t) ==
  /\ pc[t] = "cur_hosts_write"
  /\ conn_hosts' = hhosts[tcli[t]]
  /\ hostsWrites' = hostsWrites + 1
  /\ CursorMake(t)
  /\ UNCHANGED <<poolVars, is_closed, hhosts, pullVars>>
  /\ UNCHANGED execVars

\* client.connection.hosts = self._hosts, then the cursor is made
CursorHostsAssign(t) ==
  /\ pc[t] = "cur_hosts_assign"
  /\ hhosts' = [hhosts EXCEPT ![tcli[t]] = conn_hosts]
  /\ CursorMake(t)
  /\ UNCHANGED <<poolVars, is_closed, conn_hosts, hostsWrites, pullVars>>
  /\ UNCHANGED execVars

\* ----------------------------------------------------------- Cursor.close()
\* close() without the "if self.closed: return" test.
CloseCheckNoTest(t, c) ==
  /\ Goto(t, "close_set")
  /\ tcur' = [tcur EXCEPT ![t] = c]
  /\ UNCHANGED tcli
  /\ UNCHANGED <<cstate, cclient, pushes, poolVars, connVars, pullVars>>

\* if self.closed: return
CloseCheck(t, c) ==
  /\ IF closed(c)
     THEN Return(t)
     ELSE /\ Goto(t, "close_set")
          /\ tcur' = [tcur EXCEPT ![t] = c]
          /\ UNCHANGED tcli
  /\ UNCHANGED <<cstate, cclient, pushes, poolVars, connVars, pullVars>>

\* cursor.close() called by the application
CloseCall(t, c) ==
  /\ pc[t] = "idle"
  /\ Exists(c)
  /\ ~finalized[c]
  /\ closes[c] < MaxCloses
  /\ closes' = [closes EXCEPT ![c] = @ + 1]
  /\ CloseCheck(t, c)
  /\ UNCHANGED finalized
  /\ UNCHANGED execVars

\* self._state = self._states.CURSOR_CLOSED
CloseSet(t) ==
  /\ pc[t] = "close_set"
  /\ cstate' = [cstate EXCEPT ![tcur[t]] = CURSOR_CLOSED]
  /\ Goto(t, "close_push")
  /\ UNCHANGED <<tcur, tcli, cclient, finalized, pushes, closes, poolVars,
                 connVars, pullVars>>
  /\ UNCHANGED execVars

\* close() that returns without pushing the handle.
ClosePushSkip(t) ==
  /\ pc[t] = "close_push"
  /\ Return(t)
  /\ UNCHANGED <<cursorVars, poolVars, connVars, pullVars>>
  /\ UNCHANGED execVars

\* self._connection.pool.push(self._client)
ClosePush(t) ==
  /\ pc[t] = "close_push"
  /\ PoolPush(cclient[tcur[t]])
  /\ pushes' = [pushes EXCEPT ![tcur[t]] = @ + 1]
  /\ Return(t)
  /\ UNCHANGED <<cstate, cclient, finalized, closes, poolClosed, connVars,
                 pullVars>>
  /\ UNCHANGED execVars

\* --------------------------------------------------------- Cursor.__del__()
\* __del__() that releases nothing.
DelCheckNoClose(t, c) ==
  /\ Return(t)
  /\ UNCHANGED <<cstate, cclient, pushes, closes, poolVars, connVars, pullVars>>

\* if not self.closed: self.close()
DelCheck(t, c) ==
  /\ UNCHANGED closes
  /\ IF closed(c)
     THEN Return(t)
     ELSE /\ Goto(t, "del_close")
          /\ tcur' = [tcur EXCEPT ![t] = c]
          /\ UNCHANGED tcli
  /\ UNCHANGED <<cstate, cclient, pushes, poolVars, connVars, pullVars>>

\* cursor.__del__() called as a method
DelCall(t, c) ==
  /\ pc[t] = "idle"
  /\ Exists(c)
  /\ ~finalized[c]
  /\ DelCheck(t, c)
  /\ UNCHANGED finalized
  /\ UNCHANGED execVars

\* The garbage collector runs __del__ once, when no reference is left: no
\* call on the cursor is in progress and none can follow.
Finalize(t, c) ==
  /\ pc[t] = "idle"
  /\ Exists(c)
  /\ ~finalized[c]
  /\ ~Active(c)
  /\ finalized' = [finalized EXCEPT ![c] = TRUE]
  /\ DelCheck(t, c)
  /\ UNCHANGED execVars

\* self.close(), entered from __del__
DelClose(t) ==
  /\ pc[t] = "del_close"
  /\ CloseCheck(t, tcur[t])
  /\ UNCHANGED <<finalized, closes>>
  /\ UNCHANGED execVars

\* ------------------------------------------------------- Connection.close()
\* close() that leaves the pool alone.
ConnCloseNoCleanup(t) ==
  /\ pc[t] = "idle"
  /\ Goto(t, "conn_set")
  /\ UNCHANGED <<tcur, tcli, cursorVars, poolVars, connVars, pullVars>>
  /\ UNCHANGED execVars

\* self.pool.cleanup()
ConnClose(t) ==
  /\ pc[t] = "idle"
  /\ PoolCleanup
  /\ Goto(t, "conn_set")
  /\ UNCHANGED <<tcur, tcli, cursorVars, connVars, pullVars>>
  /\ UNCHANGED execVars

\* self.is_closed = True
ConnCloseSet(t) ==
  /\ pc[t] = "conn_set"
  /\ is_closed' = TRUE
  /\ Return(t)
  /\ UNCHANGED <<cursorVars, poolVars, conn_hosts, hostsWrites, hhosts, pullVars>>
  /\ UNCHANGED execVars


\* ---------------------------------------------------------- Cursor.execute()
\* The base class's execute(), reached through super(): a closed cursor is
\* refused before anything is sent; otherwise the cursor is RUNNING, the
\* query goes to the handle, a failed query raises and a response with
\* columns sets the row count to its number of rows.
BaseExecute(cs, q, resp) ==
  IF cs.state = CURSOR_CLOSED
  THEN [state |-> cs.state, rowcount |-> cs.rowcount, sent |-> <<>>,
        exc |-> "InterfaceError"]
  ELSE IF resp.kind = "error"
       THEN [state |-> "RUNNING", rowcount |-> cs.rowcount, sent |-> <<q>>,
             exc |-> "OperationalError"]
       ELSE [state |-> "FINISHED",
             rowcount |-> IF resp.kind = "rows" THEN resp.n ELSE cs.rowcount,
             sent |-> <<q>>, exc |-> "none"]

\* What goes to the handle: the text and the parameters passed with it.
Query(text, params) == [text |-> text, params |-> params]

\* The text work of an execute() that builds the probe whether or not
\* " WHERE " was found.
PlanNoTest(stmt) ==
  LET query == substitute_params(stmt.op, stmt.params)
      matched == update_pattern(stmt.op) # 0
      rematched == update_pattern(query) # 0
  IN [matched |-> matched,
      rematched |-> rematched,
      found |-> TRUE,
      probe |-> IF matched /\ rematched
                THEN probe_of(table_of(query), where_of(query))
                ELSE <<>>]

\* The text work of execute() on one statement: whether update_pattern
\* matches the operation, whether it matches the substituted query, whether
\* " WHERE " is found in it (i > 0), and the probe built from it.
Plan(stmt) ==
  LET query == substitute_params(stmt.op, stmt.params)
      matched == update_pattern(stmt.op) # 0
      rematched == update_pattern(query) # 0
      found == where_index(query) > 0
  IN [matched |-> matched,
      rematched |-> rematched,
      found |-> found,
      probe |-> IF matched /\ rematched /\ found
                THEN probe_of(table_of(query), where_of(query))
                ELSE <<>>]

\* Plan, worked out once for every statement of the model.
Plans == [stmt \in AllStmts |-> Plan(stmt)] @@ [stmt \in {} |-> Plan(stmt)]

\* The probe with its failure swallowed: the row count is left alone and
\* execute() carries on.
ProbeSwallow(cs, probe, resp) ==
  LET r == BaseExecute(cs, Query(probe, NoParams), resp)
  IN IF r.exc = "InterfaceError" THEN r
     ELSE IF r.exc # "none"
          THEN [state |-> "NONE", rowcount |-> cs.rowcount, sent |-> r.sent,
                exc |-> "none"]
          ELSE [state |-> "NONE", rowcount |-> resp.first, sent |-> r.sent,
                exc |-> "none"]

\* super().execute(probe); (rowcount,) = self.fetchone();
\* self._reset_state(); self._rowcount = rowcount
Probe(cs, probe, resp) ==
  LET r == BaseExecute(cs, Query(probe, NoParams), resp)
  IN IF r.exc # "none" THEN r
     ELSE [state |-> "NONE", rowcount |-> resp.first, sent |-> r.sent,
           exc |-> "none"]

\* execute() that never reads the flag.
executeIgnoreFlag(cs, stmt, enabled, presp, sresp) ==
  LET start == [state |-> cs.state, rowcount |-> cs.rowcount, sent |-> <<>>,
                exc |-> "none"]
      plan == Plans[stmt]
      probed ==
        IF plan.matched
        THEN IF ~plan.rematched
             THEN [start EXCEPT !.exc = "AttributeError"]
             ELSE IF plan.found
                  THEN Probe(cs, plan.probe, presp)
                  ELSE start
        ELSE start
      last == BaseExecute(probed, Query(stmt.op, stmt.params), sresp)
  IN IF probed.exc # "none" THEN probed
     ELSE [last EXCEPT !.sent = probed.sent \o last.sent]

\* execute() that resets the cursor before anything else.
executeResetFirst(cs, stmt, enabled, presp, sresp) ==
  LET q == Query(stmt.op, stmt.params)
      r == BaseExecute([state |-> "NONE", rowcount |-> -1], q, sresp)
  IN r

\* Cursor.execute(operation, parameters) on a cursor in state cs: the state
\* and row count it leaves, the queries it sends and the exception it raises.
execute(cs, stmt, enabled, presp, sresp) ==
  LET start == [state |-> cs.state, rowcount |-> cs.rowcount, sent |-> <<>>,
                exc |-> "none"]
      plan == Plans[stmt]
      probed ==
        IF enabled /\ plan.matched
        THEN IF ~plan.rematched
             THEN [start EXCEPT !.exc = "AttributeError"]
             ELSE IF plan.found
                  THEN Probe(cs, plan.probe, presp)
                  ELSE start
        ELSE start
      last == BaseExecute(probed, Query(stmt.op, stmt.params), sresp)
  IN IF probed.exc # "none" THEN probed
     ELSE [last EXCEPT !.sent = probed.sent \o last.sent]

CursorOp(t, c) ==
  /\ pc[t] = "idle"
  /\ Exists(c)
  /\ ~finalized[c]

\* cursor.execute(operation, parameters), with the server's answers: the
\* call has run and is about to return, or its exception is on its way.
Execute(t, c, stmt, presp, sresp) ==
  /\ CursorOp(t, c)
  /\ LET cs == [state |-> cstate[c], rowcount |-> rowcount[c]]
         r == execute(cs, stmt, flag, presp, sresp)
     IN /\ cstate' = [cstate EXCEPT ![c] = r.state]
        /\ rowcount' = [rowcount EXCEPT ![c] = r.rowcount]
        /\ wire' = r.sent
        /\ call' = [cursor |-> c, stmt |-> stmt, presp |-> presp,
                    sresp |-> sresp, before |-> cs]
        /\ IF r.exc = "none"
           THEN /\ Goto(t, "executed")
                /\ UNCHANGED <<tcur, tcli>>
           ELSE Raise(t, r.exc)
  /\ UNCHANGED <<cclient, finalized, pushes, closes, poolVars, connVars,
                 pullVars, columnar, ctx, use_numpy, qcls, numpy_ok, flag>>

\* execute() returns None to the application.
ExecuteReturn(t) ==
  /\ pc[t] = "executed"
  /\ Return(t)
  /\ call' = NoCall
  /\ wire' = <<>>
  /\ UNCHANGED <<cursorVars, poolVars, connVars, pullVars, rowcount, columnar,
                 ctx, use_numpy, qcls, numpy_ok, flag>>

\* ------------------------------------------------------- Cursor.use_numpy
\* The setter, on a handle whose setting and classes are hs.
set_use_numpy(hs, value, avail) ==
  IF value = "True"
  THEN IF avail
       THEN [use_numpy |-> value, qcls |-> NumpyClasses, exc |-> "none"]
       ELSE [use_numpy |-> value, qcls |-> hs.qcls, exc |-> "RuntimeError"]
  ELSE [use_numpy |-> value, qcls |-> PlainClasses, exc |-> "none"]

HandleState(h) == [use_numpy |-> use_numpy[h], qcls |-> qcls[h]]

\* cursor.use_numpy = value
SetUseNumpy(t, c, value) ==
  /\ CursorOp(t, c)
  /\ LET r == set_use_numpy(HandleState(cclient[c]), value, numpy_ok)
     IN /\ use_numpy' = [use_numpy EXCEPT ![cclient[c]] = r.use_numpy]
        /\ qcls' = [qcls EXCEPT ![cclient[c]] = r.qcls]
        /\ IF r.exc = "none"
           THEN UNCHANGED <<pc, tcur, tcli>>
           ELSE Raise(t, r.exc)
  /\ UNCHANGED <<cursorVars, poolVars, connVars, pullVars, rowcount, columnar,
                 ctx, call, wire, numpy_ok, flag>>

\* ------------------------------------------- Cursor.set_query_execution_args
\* with cursor.set_query_execution_args(col, un): the part before the yield
EnterArgs(t, c, col, un) ==
  /\ CursorOp(t, c)
  /\ ~ctx[c].on
  /\ LET h == cclient[c]
         r == IF un # "None" THEN set_use_numpy(HandleState(h), un, numpy_ok)
              ELSE [use_numpy |-> use_numpy[h], qcls |-> qcls[h], exc |-> "none"]
     IN /\ use_numpy' = [use_numpy EXCEPT ![h] = r.use_numpy]
        /\ qcls' = [qcls EXCEPT ![h] = r.qcls]
        /\ IF r.exc = "none"
           THEN /\ columnar' = [columnar EXCEPT ![c] = IF col # "None" THEN col ELSE @]
                /\ ctx' = [ctx EXCEPT ![c] = [on |-> TRUE, use_numpy |-> use_numpy[h],
                                              columnar |-> columnar[c]]]
                /\ UNCHANGED <<pc, tcur, tcli>>
           ELSE /\ Raise(t, r.exc)
                /\ UNCHANGED <<columnar, ctx>>
  /\ UNCHANGED <<cursorVars, poolVars, connVars, pullVars, rowcount, call,
                 wire, numpy_ok, flag>>

\* The block ends normally: the part after the yield.
ExitArgs(t, c) ==
  /\ CursorOp(t, c)
  /\ ctx[c].on
  /\ LET h == cclient[c]
         r == set_use_numpy(HandleState(h), ctx[c].use_numpy, numpy_ok)
     IN /\ use_numpy' = [use_numpy EXCEPT ![h] = r.use_numpy]
        /\ qcls' = [qcls EXCEPT ![h] = r.qcls]
        /\ ctx' = [ctx EXCEPT ![c] = NoCtx]
        /\ IF r.exc = "none"
           THEN /\ columnar' = [columnar EXCEPT ![c] = ctx[c].columnar]
                /\ UNCHANGED <<pc, tcur, tcli>>
           ELSE /\ Raise(t, r.exc)
                /\ UNCHANGED columnar
  /\ UNCHANGED <<cursorVars, poolVars, connVars, pullVars, rowcount, call,
                 wire, numpy_ok, flag>>

\* The block raises: the exception is thrown into the generator at the
\* yield, which does not catch it, so nothing after the yield runs.
BlockRaises(t, c) ==
  /\ CursorOp(t, c)
  /\ ctx[c].on
  /\ ctx' = [ctx EXCEPT ![c] = NoCtx]
  /\ Raise(t, "BlockError")
  /\ UNCHANGED <<cursorVars, poolVars, connVars, pullVars, rowcount, columnar,
                 use_numpy, qcls, call, wire, numpy_ok, flag>>

\* ------------------------------------------------------------- exceptions
\* The raised exception reaches the caller of the failed call.
Propagate(t) ==
  /\ pc[t] \in Exceptions
  /\ Return(t)
  /\ call' = NoCall
  /\ wire' = <<>>
  /\ UNCHANGED <<cursorVars, poolVars, connVars, pullVars, rowcount, columnar,
                 ctx, use_numpy, qcls, numpy_ok, flag>>

\* ------------------------------------------------------------ specification
\* A statement of cursor(), close(), the finalizer or Connection.close().
LifeStep(t) ==
  \/ CursorCall(t)
  \/ CursorPull(t)
  \/ CursorHosts(t)
  \/ CursorHostsWrite(t)
  \/ CursorHostsAssign(t)
  \/ \E c \in Cursors : CloseCall(t, c)
  \/ CloseSet(t)
  \/ ClosePush(t)
  \/ \E c \in Cursors : Finalize(t, c)
  \/ DelClose(t)
  \/ ConnClose(t)
  \/ ConnCloseSet(t)

\* Threads interleave at every statement.
Next == \E t \in Threads : LifeStep(t) \/ Propagate(t)

Spec == Init /\ [][Next]_vars

\* A thread inside a call runs on: the scheduler starves no thread.
Continue(t) == pc[t] # "idle" /\ (LifeStep(t) \/ Propagate(t))

FairSpec == Spec /\ \A t \in Threads : WF_vars(Continue(t))

\* One call at a time: a call starts only when no other is in progress.
Solo(t) == \A u \in Threads \ {t} : pc[u] = "idle"

Tri == {"None", "True", "False"}

\* cursor.execute() with one of stmts, the server answering either way, a
\* count probe with one of counts.
ExecStep(t, stmts, counts) ==
  \E c \in Cursors, s \in stmts, pr \in ProbeResponses(counts) :
    \E sr \in StmtResponses(s.op) : Execute(t, c, s, pr, sr)

SeqNext ==
  \E t \in Threads :
    \/ Solo(t) /\ CursorCall(t)
    \/ Solo(t) /\ CursorPull(t)
    \/ Solo(t) /\ CursorHosts(t)
    \/ Solo(t) /\ CursorHostsWrite(t)
    \/ Solo(t) /\ CursorHostsAssign(t)
    \/ Solo(t) /\ \E c \in Cursors : CloseCall(t, c)
    \/ Solo(t) /\ CloseSet(t)
    \/ Solo(t) /\ ClosePush(t)
    \/ Solo(t) /\ \E c \in Cursors : DelCall(t, c)
    \/ Solo(t) /\ \E c \in Cursors : Finalize(t, c)
    \/ Solo(t) /\ DelClose(t)
    \/ Solo(t) /\ ConnClose(t)
    \/ Solo(t) /\ ConnCloseSet(t)
    \/ Solo(t) /\ ExecStep(t, FewStmts, {7})
    \/ Solo(t) /\ ExecuteReturn(t)
    \/ Solo(t) /\ Propagate(t)

\* Calls made one after the other, on any of the cursors.
SeqSpec == Init /\ [][SeqNext]_vars

ExecInit == \E enabled \in BOOLEAN : OneCursor(TRUE, enabled)

ExecNext ==
  \E t \in Threads :
    \/ Solo(t) /\ ExecStep(t, AllStmts, ProbeCounts)
    \/ Solo(t) /\ ExecuteReturn(t)
    \/ Solo(t) /\ \E c \in Cursors : CloseCall(t, c)
    \/ Solo(t) /\ CloseSet(t)
    \/ Solo(t) /\ ClosePush(t)
    \/ Solo(t) /\ Propagate(t)

\* One cursor, executing statements of every shape until it is closed.
ExecSpec == ExecInit /\ [][ExecNext]_vars

OptionInit == \E avail \in BOOLEAN : OneCursor(avail, TRUE)

OptionNext ==
  \E t \in Threads :
    \/ Solo(t) /\ \E c \in Cursors, v \in {"True", "False"} : SetUseNumpy(t, c, v)
    \/ Solo(t) /\ \E c \in Cursors, col \in Tri, un \in Tri : EnterArgs(t, c, col, un)
    \/ Solo(t) /\ \E c \in Cursors : ExitArgs(t, c)
    \/ Solo(t) /\ \E c \in Cursors : BlockRaises(t, c)
    \/ Solo(t) /\ \E c \in Cursors : CloseCall(t, c)
    \/ Solo(t) /\ CloseSet(t)
    \/ Solo(t) /\ ClosePush(t)
    \/ Solo(t) /\ Propagate(t)

\* One cursor whose output-format options are set, overridden and restored.
OptionSpec == OptionInit /\ [][OptionNext]_vars

\* ================================================================ claims
\* The cursors that hold handle h and are not closed.
Holders(h) == {c \in Cursors : cstate[c] \in OpenStates /\ cclient[c] = h}

\* --------------------------------------------------------------------- C1
\* C1: over any sequence of close() and __del__() calls on a cursor, made one
\* after the other, the bound handle is pushed exactly once: a cursor that is
\* not closed has pushed nothing, a closed cursor on which no call is running
\* has pushed once, and on such a cursor no later step changes its state,
\* its push count or, when the step is a close() call, the pool.
C1_CloseOnce ==
  /\ [](\A c \in Cursors :
          pushes[c] = IF closed(c) /\ ~Active(c) THEN 1 ELSE 0)
  /\ [][\A c \in Cursors :
          (closed(c) /\ ~Active(c)) =>
            /\ closed(c)'
            /\ pushes'[c] = pushes[c]
            /\ (closes'[c] # closes[c] => poolVars' = poolVars)]_vars

\* close() was called at least twice on a cursor the finalizer has also seen,
\* and the handle was pushed once.
C1_Witness ==
  \E c \in Cursors :
    /\ closes[c] >= 2
    /\ finalized[c]
    /\ pushes[c] = 1
    /\ cclient[c] \in idle

\* --------------------------------------------------------------------- C2
\* C2: in every reachable state, threads interleaving at will, no handle is
\* bound to two open cursors, no handle is in the idle set while an open
\* cursor holds it, and no handle is both idle and closed.
C2_HandleExclusive ==
  \A h \in Handles :
    /\ Cardinality(Holders(h)) <= 1
    /\ ~(h \in idle /\ Holders(h) # {})
    /\ ~(h \in idle /\ h \in closedH)

\* --------------------------------------------------------------------- C3
\* C3: a cursor on which the application never called close() has, once its
\* finalizer runs, its handle pushed eventually and is closed; and it never
\* pushes its handle twice.
C3_FinalizerReleases ==
  /\ \A c \in Cursors :
       (finalized[c] /\ closes[c] = 0) ~> (pushes[c] = 1 /\ closed(c))
  /\ [](\A c \in Cursors : closes[c] = 0 => pushes[c] <= 1)

\* The finalizer has closed a cursor the application never closed, and the
\* handle was pushed.
C3_Witness ==
  \E c \in Cursors :
    /\ finalized[c]
    /\ closes[c] = 0
    /\ pushes[c] = 1
    /\ ~Active(c)

\* --------------------------------------------------------------------- C4
\* C4: execute() on a closed cursor, for a statement of any shape, raises
\* InterfaceError, sends nothing to the handle and leaves the cursor's state
\* and row count as they were; and a closed cursor stays closed, with the
\* same row count, whatever happens next.
C4_ClosedRefusesExecute ==
  /\ [](call.cursor # 0 /\ call.before.state = CURSOR_CLOSED =>
          /\ \E t \in Threads : pc[t] = "InterfaceError"
          /\ wire = <<>>
          /\ cstate[call.cursor] = call.before.state
          /\ rowcount[call.cursor] = call.before.rowcount)
  /\ [][\A c \in Cursors :
          closed(c) => closed(c)' /\ rowcount'[c] = rowcount[c]]_vars

\* execute() with an ALTER TABLE ... UPDATE ... WHERE statement was refused on
\* a closed cursor that had reported 7 rows.
C4_Witness ==
  /\ call.cursor # 0
  /\ call.before.state = CURSOR_CLOSED
  /\ call.before.rowcount = 7
  /\ Plans[call.stmt].matched
  /\ Plans[call.stmt].found
  /\ \E t \in Threads : pc[t] = "InterfaceError"

\* --------------------------------------------------------------------- C5
\* C5: once Connection.close() has completed (is_closed is set), a thread
\* that calls cursor() goes straight to raising InterfaceError, and that
\* step pulls nothing, makes no cursor and leaves the cached host list and
\* the pool as they were; no call gets as far as pool.pull().
C5_ClosedConnectionRefuses ==
  [][\A t \in Threads :
       (is_closed /\ pc[t] = "idle" /\ pc'[t] \in {"cur_pull", "InterfaceError"})
       => /\ pc'[t] = "InterfaceError"
          /\ UNCHANGED <<pullVars, cursorVars, connVars, poolVars>>]_vars

\* cursor() was refused on a closed connection.
C5_Witness ==
  /\ is_closed
  /\ \E t \in Threads : pc[t] = "InterfaceError"

\* ------------------------------------------------- the statement as stated
\* Two characters are the same letter, whatever their case.
SameLetter(a, b) == UpperChar(a) = UpperChar(b)

\* word occurs in s at p (from 0), case aside.
OccursAt(s, word, p) ==
  /\ p >= 0
  /\ p + Len(word) <= Len(s)
  /\ \A k \in 1..Len(word) : SameLetter(s[p + k], word[k])

\* The last case-insensitive occurrence of word in s at or after start, or -1.
LastOccurrence(s, word, start) ==
  LET hits == {p \in start..(Len(s) - Len(word)) : OccursAt(s, word, p)}
  IN IF hits = {} THEN -1 ELSE Max(hits)

\* The text after the last WHERE, up to the last SETTINGS after it or to the
\* end of the statement.
StatedWhere(q) ==
  LET i == LastOccurrence(q, WHERE_, 0)
      j == LastOccurrence(q, SETTINGS_, i + Len(WHERE_))
  IN Slice(q, i + Len(WHERE_), IF j >= 0 THEN j ELSE Len(q))

\* What the claims say of one statement: it has the ALTER TABLE <quoted-name>
\* UPDATE shape, it contains a WHERE, and the probe that goes with it.
StatedOf(stmt) ==
  LET q == substitute_params(stmt.op, stmt.params)
      shape == update_pattern(stmt.op) # 0 /\ update_pattern(q) # 0
      where == LastOccurrence(q, WHERE_, 0) >= 0
  IN [shape |-> shape,
      where |-> where,
      probe |-> IF shape /\ where
                THEN probe_of(table_of(q), StatedWhere(q))
                ELSE <<>>]

Stated == [stmt \in AllStmts |-> StatedOf(stmt)] @@ [stmt \in {} |-> StatedOf(stmt)]

\* The statement of the call in progress, as it goes to the handle.
Original == Query(call.stmt.op, call.stmt.params)

\* execute() is running on a cursor that was open when it was called.
OpenCall == call.cursor # 0 /\ call.before.state \in OpenStates

\* --------------------------------------------------------------------- C6
\* C6: with the flag enabled, execute() on an open cursor with an ALTER TABLE
\* <quoted-name> UPDATE ... WHERE <predicate> statement, both queries
\* succeeding, has sent exactly the probe select count(*) from <table> where
\* <predicate> and then the statement, returns, and leaves the row count
\* equal to the value the probe returned.
C6_ProbeThenStatement ==
  (/\ OpenCall
   /\ flag
   /\ Stated[call.stmt].shape
   /\ Stated[call.stmt].where
   /\ call.presp.kind = "rows"
   /\ call.sresp.kind # "error")
  => /\ wire = <<Query(Stated[call.stmt].probe, NoParams), Original>>
     /\ rowcount[call.cursor] = call.presp.first
     /\ \E t \in Threads : pc[t] = "executed"

\* --------------------------------------------------------------------- C7
\* C7: execute() on an open cursor with an ALTER TABLE <quoted-name> UPDATE
\* statement that contains no WHERE sends exactly one query, the statement
\* itself, and when it succeeds the row count is what the cursor had, the
\* mutation reporting none.
C7_NoWhereNoProbe ==
  (/\ OpenCall
   /\ Stated[call.stmt].shape
   /\ ~Stated[call.stmt].where)
  => /\ wire = <<Original>>
     /\ (call.sresp.kind # "error" =>
           /\ rowcount[call.cursor] = call.before.rowcount
           /\ \E t \in Threads : pc[t] = "executed")

\* With the flag enabled, a statement of the shape without WHERE was executed
\* on a cursor that had reported 7 rows, and has returned.
C7_Witness ==
  /\ OpenCall
  /\ flag
  /\ Stated[call.stmt].shape
  /\ ~Stated[call.stmt].where
  /\ call.before.rowcount = 7
  /\ wire = <<Original>>
  /\ \E t \in Threads : pc[t] = "executed"

\* --------------------------------------------------------------------- C8
\* C8: whenever execute() sends a probe, its predicate is the text of the
\* substituted statement after the last case-insensitive WHERE, up to the
\* last SETTINGS after that WHERE or to the end of the statement.
C8_PredicateText ==
  (call.cursor # 0 /\ wire # <<>> /\ wire[1] # Original)
  => wire[1] = Query(Stated[call.stmt].probe, NoParams)

\* --------------------------------------------------------------------- C9
\* C9: whenever a set_query_execution_args block ends, by any path, use_numpy
\* and columnar are again what they were before the block.
C9_ArgsRestored ==
  [][\A c \in Cursors :
       (ctx[c].on /\ ~ctx'[c].on)
       => /\ use_numpy'[cclient[c]] = ctx[c].use_numpy
          /\ columnar'[c] = ctx[c].columnar]_vars

\* -------------------------------------------------------------------- C10
\* C10: a call that fails with RuntimeError, the NumPy extras being absent,
\* leaves every handle's use_numpy setting and result classes as they were.
C10_FailedEnableChangesNothing ==
  [][\A t \in Threads :
       (pc[t] = "idle" /\ pc'[t] = "RuntimeError")
       => use_numpy' = use_numpy /\ qcls' = qcls]_vars

\* -------------------------------------------------------------------- C11
\* C11: once a cursor has pushed its handle, and as long as no open cursor
\* holds that handle, no step sends a query for the closed cursor or changes
\* the handle's use_numpy setting or its result classes.
C11_NoUseAfterPush ==
  [][\A c \in Cursors :
       (pushes[c] >= 1 /\ Holders(cclient[c]) = {})
       => /\ use_numpy'[cclient[c]] = use_numpy[cclient[c]]
          /\ qcls'[cclient[c]] = qcls[cclient[c]]
          /\ (call'.cursor = c => wire' = <<>>)]_vars

\* -------------------------------------------------------------------- C12
\* C12: once Connection.close() has returned the pool is cleaned up; from
\* cleanup() on the idle set is empty, a push closes the handle instead of
\* pooling it, open cursors stay open until they are closed themselves, and
\* when every cursor has pushed its handle and no call is running no handle
\* is live.
C12_LazyDrain ==
  /\ [](is_closed => poolClosed)
  /\ [](poolClosed => idle = {})
  /\ []((/\ poolClosed
         /\ \A t \in Threads : pc[t] = "idle"
         /\ \A c \in Cursors : Exists(c) => pushes[c] >= 1)
        => live = {})
  /\ [][\A t \in Threads :
          (poolClosed /\ pc[t] = "close_push" /\ pc'[t] = "idle")
          => /\ cclient[tcur[t]] \in closedH'
             /\ cclient[tcur[t]] \notin live' \cup idle']_vars
  /\ [][\A c \in Cursors :
          (~poolClosed /\ poolClosed') => cstate'[c] = cstate[c]]_vars

\* Connection.close() has returned, a cursor that was open at cleanup() has
\* since been closed, its handle was closed by that push, and nothing is live.
C12_Witness ==
  /\ is_closed
  /\ \A t \in Threads : pc[t] = "idle"
  /\ pullsClosed = 0
  /\ \E c \in Cursors : closed(c) /\ pushes[c] = 1 /\ cclient[c] \in drained
  /\ live = {}
  /\ idle = {}

\* -------------------------------------------------------------------- C13
\* C13: Connection._hosts is assigned at most once, and once it holds a host
\* list no step changes it, however the threads' cursor() calls interleave.
C13_HostsWrittenOnce ==
  /\ [](hostsWrites <= 1)
  /\ [][conn_hosts # 0 => conn_hosts' = conn_hosts]_vars

\* -------------------------------------------------------------------- C14
\* C14: execute() on an open cursor with the flag disabled, or with an
\* operation that does not begin with ALTER TABLE <quoted-name> UPDATE, sends
\* exactly one query: the operation with its parameters, and no probe.
C14_FlagGatesProbe ==
  (OpenCall /\ (~flag \/ update_pattern(call.stmt.op) = 0))
  => wire = <<Original>>

\* With the flag disabled, an ALTER TABLE ... UPDATE ... WHERE statement was
\* executed and has returned: one query was sent, the row count is as before.
C14_Witness ==
  /\ OpenCall
  /\ ~flag
  /\ Stated[call.stmt].shape
  /\ Stated[call.stmt].where
  /\ wire = <<Original>>
  /\ rowcount[call.cursor] = call.before.rowcount
  /\ \E t \in Threads : pc[t] = "executed"

\* -------------------------------------------------------------------- C15
\* C15: entering a set_query_execution_args(columnar, use_numpy) block leaves
\* an option whose argument is None as it was and sets the other to its
\* argument; and when the block ends without raising, use_numpy and columnar
\* are what they were before entry and the exit raises nothing.
C15_NormalExitRestores ==
  /\ [][\A t \in Threads, c \in Cursors, col \in Tri, un \in Tri :
          (EnterArgs(t, c, col, un) /\ ctx'[c].on)
          => /\ columnar'[c] = IF col = "None" THEN columnar[c] ELSE col
             /\ use_numpy'[cclient[c]] =
                  IF un = "None" THEN use_numpy[cclient[c]] ELSE un]_vars
  /\ [][\A t \in Threads, c \in Cursors :
          ExitArgs(t, c)
          => /\ use_numpy'[cclient[c]] = ctx[c].use_numpy
             /\ columnar'[c] = ctx[c].columnar
             /\ pc'[t] = "idle"]_vars

\* -------------------------------------------------------------------- C16
RECURSIVE PushesUpTo(_)
\* The pushes made by cursors 1..n.
PushesUpTo(n) == IF n = 0 THEN 0 ELSE pushes[n] + PushesUpTo(n - 1)

\* The cursors that are not closed.
OpenCursors == {c \in Cursors : cstate[c] \in OpenStates}

\* C16: over any sequence of cursor(), close() and __del__() calls, whenever
\* no call is in progress the handles pulled minus the handles pushed are as
\* many as the open cursors and every cursor made stands for one pull; a
\* cursor() call pulls once, at its pull statement and nowhere else; and the
\* pushes never outnumber the pulls.
C16_PullsMinusPushes ==
  /\ []((\A t \in Threads : pc[t] = "idle")
        => /\ pulls - PushesUpTo(MaxCursors) = Cardinality(OpenCursors)
           /\ pulls = Cardinality({c \in Cursors : Exists(c)}))
  /\ [](PushesUpTo(MaxCursors) <= pulls)
  /\ [][\A t \in Threads :
          /\ (pc[t] = "cur_pull" /\ pc'[t] = "cur_hosts") => pulls' = pulls + 1
          /\ (InCursorCall(t) /\ pc[t] # "cur_pull" /\ pc'[t] # pc[t])
             => pulls' = pulls]_vars

\* Two cursors were made, one was closed twice and finalized, the other is
\* open: two pulls, one push, one open cursor.
C16_Witness ==
  /\ \A t \in Threads : pc[t] = "idle"
  /\ pulls = 2
  /\ PushesUpTo(MaxCursors) = 1
  /\ Cardinality(OpenCursors) = 1
  /\ \E c \in Cursors : closed(c) /\ closes[c] = 2 /\ finalized[c]

\* -------------------------------------------------------------------- C17
\* C17: when execute() on an open cursor sends a probe and the probe fails,
\* the call raises the probe's error, the probe is the only query sent (the
\* statement never goes to the handle), the cursor is not closed and its
\* handle is neither pushed nor idle.
C17_ProbeFailurePropagates ==
  (/\ OpenCall
   /\ flag
   /\ Stated[call.stmt].shape
   /\ Stated[call.stmt].where
   /\ call.presp.kind = "error")
  => /\ \E t \in Threads : pc[t] = "OperationalError"
     /\ Len(wire) = 1
     /\ wire[1] # Original
     /\ ~closed(call.cursor)
     /\ pushes[call.cursor] = 0
     /\ cclient[call.cursor] \notin idle

\* A probe failed on a cursor that had reported 7 rows: the error is on its
\* way to the caller and the row count is still 7.
C17_Witness ==
  /\ OpenCall
  /\ flag
  /\ Stated[call.stmt].shape
  /\ Stated[call.stmt].where
  /\ call.presp.kind = "error"
  /\ call.before.rowcount = 7
  /\ rowcount[call.cursor] = 7
  /\ Len(wire) = 1
  /\ \E t \in Threads : pc[t] = "OperationalError"

\* -------------------------------------------------------------------- C18
\* C18: however Connection.close() and cursor() calls of other threads
\* interleave, once pool.cleanup() has run no pool.pull() is made, a thread
\* that calls cursor() goes straight to InterfaceError, and no cursor is made.
C18_NoCursorAfterCleanup ==
  /\ [](pullsClosed = 0)
  /\ [][\A t \in Threads :
          (poolClosed /\ pc[t] = "idle" /\ pc'[t] \in {"cur_pull", "InterfaceError"})
          => pc'[t] = "InterfaceError"]_vars
  /\ [][\A c \in Cursors : (poolClosed /\ ~Exists(c)) => ~Exists(c)']_vars

====
